---- MODULE Spec2Model ----
(***************************************************************************)
(* A model of the rustrict validation session: the shared, mutex-protected *)
(* result log (RustrictScope.results), the scopes that append to it        *)
(* (StringScope::must / must_not / constraint) and the read accessors      *)
(* (RustrictScope::results / failures), with the lazy ConstraintError.     *)
(*                                                                         *)
(* Every library call is split at the points where other threads can       *)
(* observe it: entering the call, acquiring the mutex, running the         *)
(* caller-supplied code, pushing, and dropping the guard.                  *)
(***************************************************************************)
EXTENDS Naturals, Sequences, FiniteSets, TLC

\* Threads sharing one session.
Threads == {"t1", "t2"}

\* Number of must / must_not / constraint calls issued in a behaviour: by
\* the one thread of a sequential session, and by all threads of a shared one.
MaxChecks == 3
MaxSharedChecks == 2

None == "none"

\* Labels given to validate_string / validate_string_with_custom_exception.
Labels == {"Test", "Size"}

\* Custom exception generators handed to validate_string_with_custom_exception:
\* "wrap" builds an error whose text embeds the label, "fixed" ignores it.
Generators == {"wrap", "fixed"}

VARIABLES
    log,      \* RustrictScope.results: the Vec inside the Mutex
    lock,     \* the Mutex: its owner (a thread or None) and its poison flag
    pc,       \* where each thread is inside the library call it is running
    scope,    \* the StringScope each thread's validation block is using
    call,     \* the arguments and locals of each thread's call in progress
    ret,      \* what the last results() / failures() to return has returned
    seen,     \* history: the log length when ret was cloned
    issued,   \* history: the checks in the order the calls were entered
    logBy,    \* history: the thread that made each push, in push order
    cell,     \* the text a stateful message closure reads when it is called
    errs,     \* lazy errors a caller has built and still holds
    composite, \* the last CompositeError::new: its argument and its outcome
    out,      \* the last call on an error or a constraint, and its result
    cloneOf   \* history: the error each held error was cloned from, if any

\* The errors and constraints a caller handles outside of any session.
evars == <<cell, errs, composite, out, cloneOf>>

vars == <<log, lock, pc, scope, call, ret, seen, issued, logBy,
          cell, errs, composite, out, cloneOf>>

----------------------------------------------------------------------------
(* ConstraintError: a stored zero-argument closure, evaluated on demand.   *)

\* `move || description.clone()`: a closure that owns the text it returns.
CloneClosure(text) == [captured |-> text]

\* `move || shared.lock().unwrap().clone()` over an Arc<Mutex<String>>, and
\* `move || shared.borrow().clone()` over an Rc<RefCell<String>>: closures
\* whose text is whatever the shared cell holds when they are called. The
\* first is Send + Sync, the second is neither.
ArcCellClosure == [shared |-> "Arc<Mutex>"]
RcCellClosure == [shared |-> "Rc<RefCell>"]

\* Whether a closure's type is Send + Sync, from what it captures.
IsSendSync(f) ==
    IF "captured" \in DOMAIN f THEN TRUE ELSE f.shared = "Arc<Mutex>"

\* Calling a stored closure.
Invoke(f) == IF "captured" \in DOMAIN f THEN f.captured ELSE cell

\* ConstraintError::new
ConstraintError_new(lazy_message) == [lazy_message |-> lazy_message]

\* A message() that answers with the placeholder Debug prints.
MessagePlaceholder(e) == "<closure>"

\* ConstraintError::message
Message(e) == Invoke(e.lazy_message)

\* impl Display for ConstraintError: `write!(f, "{}", self.message())`
ConstraintError_fmt(e) == Message(e)

\* A clone that copies the text the function yields when it is made.
ConstraintError_cloneSnapshot(e) ==
    [lazy_message |-> CloneClosure(Invoke(e.lazy_message))]

\* ConstraintError::clone: the Arc is cloned, the closure is shared.
ConstraintError_clone(e) == [lazy_message |-> e.lazy_message]

\* An equality that compares the stored closures.
ConstraintError_eqByClosure(a, b) == a.lazy_message = b.lazy_message

\* impl PartialEq for ConstraintError
ConstraintError_eq(a, b) == Message(a) = Message(b)

\* CollectionConstraintError::new
CollectionConstraintError_new(lazy_message) ==
    [collection |-> TRUE, lazy_message |-> lazy_message]

\* CollectionConstraintError::message
CollectionConstraintError_message(e) == Invoke(e.lazy_message)

\* impl Display for CollectionConstraintError
CollectionConstraintError_fmt(e) == CollectionConstraintError_message(e)

----------------------------------------------------------------------------
(* Constraints.                                                            *)

\* A plain predicate `|value| *value == target`, usable as a Constraint
\* through the blanket impl.
FnConstraint(target) == [kind |-> "fn", target |-> target]

\* HaveSize::with_exact_size
HaveSize_with_exact_size(size) == [kind |-> "have_size", size |-> size]

\* A size constraint that accepts any vector that is long enough.
ValidateAtLeast(c, value) ==
    IF c.kind = "fn" THEN value = c.target
    ELSE Len(value) >= c.size

\* Constraint::validate for the two kinds of constraint.
Validate(c, value) ==
    IF c.kind = "fn" THEN value = c.target
    ELSE Len(value) = c.size

\* A generate_exception that decorates the description it is given.
GenerateExceptionDecorated(c, description) ==
    ConstraintError_new(CloneClosure(c.kind \o ": " \o description))

\* A generate_exception of HaveSize that completes the description.
GenerateExceptionWithSize(c, description) ==
    IF c.kind = "fn" THEN ConstraintError_new(CloneClosure(description))
    ELSE ConstraintError_new(CloneClosure(description \o " (wrong size)"))

\* Constraint::generate_exception: both kinds carry the description verbatim.
GenerateException(c, description) ==
    ConstraintError_new(CloneClosure(description))

\* A custom exception generator applied to the scope's label.
ApplyGenerator(g, label) ==
    IF g = "wrap" THEN ConstraintError_new(CloneClosure("custom: " \o label))
    ELSE ConstraintError_new(CloneClosure("custom"))

\* Values handed to the checks: strings (sequences of characters) for the
\* plain predicate, vectors for HaveSize.
Test == <<"T", "e", "s", "t">>
NotTest == <<"N", "o", "t", " ", "T", "e", "s", "t">>
StrValues == {Test, NotTest}
VecValues == {<<>>, <<"x">>}

\* The (value, constraint) pairs the checks are issued with.
CheckInputs ==
    {<<v, FnConstraint(NotTest)>> : v \in StrValues}
    \cup {<<v, HaveSize_with_exact_size(1)>> : v \in VecValues}

----------------------------------------------------------------------------
(* The log and the scopes.                                                 *)

OkEntry == [ok |-> TRUE]
ErrEntry(e) == [ok |-> FALSE, err |-> e]

\* A push that skips an entry equal to the last one recorded.
VecPushDedup(v, entry) ==
    IF v # <<>> /\ v[Len(v)] = entry THEN v ELSE Append(v, entry)

\* A push that inserts at the front instead of the back.
VecPushFront(v, entry) == <<entry>> \o v

\* A push that writes over the last element of a non-empty vector, as an
\* unsynchronised push may.
VecPushOverwrite(v, entry) ==
    IF v = <<>> THEN <<entry>> ELSE [v EXCEPT ![Len(v)] = entry]

\* Vec::push
VecPush(v, entry) == Append(v, entry)

NoScope ==
    [open |-> FALSE, message |-> "", has_generator |-> FALSE,
     exception_generator |-> None]

\* StringScope::new
StringScope_new(message) ==
    [open |-> TRUE, message |-> message, has_generator |-> FALSE,
     exception_generator |-> None]

\* StringScope::new_with_exception_generator
StringScope_new_with_exception_generator(message, g) ==
    [open |-> TRUE, message |-> message, has_generator |-> TRUE,
     exception_generator |-> g]

\* The caller's handles on lazy errors, and the empty values of the
\* variables that hold errors.
Slots == {1, 2}
NoError == [none |-> TRUE]
NoComposite == [given |-> <<>>, called |-> FALSE]
NoOut == [op |-> "none"]
NoClone == [of |-> 0, by |-> "", cellAt |-> ""]

NoCall == [op |-> "none"]
NoRet == [by |-> None, kind |-> "none", val |-> <<>>]

CheckOps == {"must", "must_not", "constraint"}
ReadOps == {"results", "failures"}

\* A thread is inside a check from the call until the guard is dropped.
InCheck(t) == call[t].op \in CheckOps
NChecks == Len(issued)

Init ==
    /\ log = <<>>
    /\ lock = [owner |-> None, poisoned |-> FALSE]
    /\ pc = [t \in Threads |-> "idle"]
    /\ scope = [t \in Threads |-> NoScope]
    /\ call = [t \in Threads |-> NoCall]
    /\ ret = NoRet
    /\ seen = 0
    /\ issued = <<>>
    /\ logBy = <<>>
    /\ cell = "E1"
    /\ errs = [i \in Slots |-> NoError]
    /\ composite = NoComposite
    /\ out = NoOut
    /\ cloneOf = [i \in Slots |-> NoClone]

----------------------------------------------------------------------------
(* Read accessors' helpers.                                                *)

\* Result<(), ConstraintError>::clone
EntryClone(entry) ==
    IF entry.ok THEN OkEntry ELSE ErrEntry(ConstraintError_clone(entry.err))

\* Vec::clone, element by element
VecClone(v) == [i \in 1..Len(v) |-> EntryClone(v[i])]

\* A filter that collects the errors back to front.
RECURSIVE FilterMapErrReversed(_)
FilterMapErrReversed(v) ==
    IF v = <<>> THEN <<>>
    ELSE IF Head(v).ok THEN FilterMapErrReversed(Tail(v))
    ELSE FilterMapErrReversed(Tail(v)) \o <<ConstraintError_clone(Head(v).err)>>

\* .iter().filter_map(|r| r.as_ref().err().cloned()).collect()
RECURSIVE FilterMapErr(_)
FilterMapErr(v) ==
    IF v = <<>> THEN <<>>
    ELSE IF Head(v).ok THEN FilterMapErr(Tail(v))
    ELSE <<ConstraintError_clone(Head(v).err)>> \o FilterMapErr(Tail(v))

----------------------------------------------------------------------------
(* History: what a check is expected to record (section 4.4 of the spec).  *)

ExpectedOutcome(sc, op, value, c, pred) ==
    IF op = "constraint"
    THEN IF pred THEN [ok |-> TRUE, msg |-> ""]
         ELSE [ok |-> FALSE, msg |-> sc.message]
    ELSE IF Validate(c, value) = (op = "must")
         THEN [ok |-> TRUE, msg |-> ""]
         ELSE [ok |-> FALSE,
               msg |-> IF sc.has_generator
                       THEN Message(ApplyGenerator(sc.exception_generator,
                                                   sc.message))
                       ELSE sc.message]

EntryOutcome(entry) ==
    [ok |-> entry.ok, msg |-> IF entry.ok THEN "" ELSE Message(entry.err)]

\* The history kept when thread t enters a check.
EnterCheck(t, expected) ==
    issued' = Append(issued, [by |-> t, ok |-> expected.ok,
                              msg |-> expected.msg])

----------------------------------------------------------------------------
(* RustrictScope::validate_string and its custom-exception variant: a      *)
(* scope is built over the session's log and handed to the block.          *)

ValidateString(t, message) ==
    /\ pc[t] = "idle"
    /\ ~scope[t].open
    /\ scope' = [scope EXCEPT ![t] = StringScope_new(message)]
    /\ UNCHANGED <<evars, log, lock, pc, call, ret, seen, issued, logBy>>

ValidateStringWithCustomException(t, message, g) ==
    /\ pc[t] = "idle"
    /\ ~scope[t].open
    /\ scope' = [scope EXCEPT ![t] =
                    StringScope_new_with_exception_generator(message, g)]
    /\ UNCHANGED <<evars, log, lock, pc, call, ret, seen, issued, logBy>>

\* The block returns and its scope is dropped.
ScopeEnd(t) ==
    /\ pc[t] = "idle"
    /\ scope[t].open
    /\ scope' = [scope EXCEPT ![t] = NoScope]
    /\ UNCHANGED <<evars, log, lock, pc, call, ret, seen, issued, logBy>>

----------------------------------------------------------------------------
(* StringScope::must / must_not / constraint: entering the call.           *)
(* `behaviours` is what the caller-supplied code may do when it is run:    *)
(* "returns", "panics" or "reenters" (it calls results() on the session),  *)
(* or "generator_panics": validate returns and the code that builds the    *)
(* failure panics.                                                          *)
(* `invoked` is history: the caller-supplied code the call has run so far. *)

CheckCall(op, value, c, pred, behaviour) ==
    [op |-> op, value |-> value, constraint |-> c, pred |-> pred,
     behaviour |-> behaviour, entry |-> OkEntry, invoked |-> <<>>]

Must(t, max, inputs, behaviours) ==
    /\ pc[t] = "idle"
    /\ scope[t].open
    /\ NChecks < max
    /\ \E in \in inputs, b \in behaviours :
          /\ call' = [call EXCEPT ![t] =
                         CheckCall("must", in[1], in[2], FALSE, b)]
          /\ EnterCheck(t, ExpectedOutcome(scope[t], "must", in[1], in[2],
                                           FALSE))
    /\ pc' = [pc EXCEPT ![t] = "lock"]
    /\ UNCHANGED <<evars, log, lock, scope, ret, seen, logBy>>

MustNot(t, max, inputs, behaviours) ==
    /\ pc[t] = "idle"
    /\ scope[t].open
    /\ NChecks < max
    /\ \E in \in inputs, b \in behaviours :
          /\ call' = [call EXCEPT ![t] =
                         CheckCall("must_not", in[1], in[2], FALSE, b)]
          /\ EnterCheck(t, ExpectedOutcome(scope[t], "must_not", in[1],
                                           in[2], FALSE))
    /\ pc' = [pc EXCEPT ![t] = "lock"]
    /\ UNCHANGED <<evars, log, lock, scope, ret, seen, logBy>>

ConstraintCall(t, max, behaviours) ==
    /\ pc[t] = "idle"
    /\ scope[t].open
    /\ NChecks < max
    /\ \E p \in BOOLEAN, b \in behaviours :
          /\ call' = [call EXCEPT ![t] =
                         CheckCall("constraint", <<>>, FnConstraint(<<>>), p, b)]
          /\ EnterCheck(t, ExpectedOutcome(scope[t], "constraint", <<>>,
                                           FnConstraint(<<>>), p))
    /\ pc' = [pc EXCEPT ![t] = "lock"]
    /\ UNCHANGED <<evars, log, lock, scope, ret, seen, logBy>>

\* RustrictScope::results / failures: entering the call.
Results(t) ==
    /\ pc[t] = "idle"
    /\ call' = [call EXCEPT ![t] = [op |-> "results"]]
    /\ pc' = [pc EXCEPT ![t] = "lock"]
    /\ UNCHANGED <<evars, log, lock, scope, ret, seen, issued, logBy>>

Failures(t) ==
    /\ pc[t] = "idle"
    /\ call' = [call EXCEPT ![t] = [op |-> "failures"]]
    /\ pc' = [pc EXCEPT ![t] = "lock"]
    /\ UNCHANGED <<evars, log, lock, scope, ret, seen, issued, logBy>>

----------------------------------------------------------------------------
(* `self.results.lock().unwrap()`                                          *)

\* A lock() that hands out the guard whoever holds the mutex.
AcquireUnguarded(t) ==
    /\ pc[t] = "lock"
    /\ ~lock.poisoned
    /\ lock' = [lock EXCEPT !.owner = t]
    /\ pc' = [pc EXCEPT ![t] =
                 IF call[t].op \in CheckOps THEN "validate" ELSE "clone"]
    /\ UNCHANGED <<evars, log, scope, call, ret, seen, issued, logBy>>

\* The mutex is free and not poisoned: the caller gets the guard.
Acquire(t) ==
    /\ pc[t] = "lock"
    /\ lock.owner = None
    /\ ~lock.poisoned
    /\ lock' = [lock EXCEPT !.owner = t]
    /\ pc' = [pc EXCEPT ![t] =
                 IF call[t].op \in CheckOps THEN "validate" ELSE "clone"]
    /\ UNCHANGED <<evars, log, scope, call, ret, seen, issued, logBy>>

\* A lock() that recovers the guard of a poisoned mutex.
AcquireRecovering(t) ==
    /\ pc[t] = "lock"
    /\ lock.owner = None
    /\ lock.poisoned
    /\ lock' = [lock EXCEPT !.owner = t]
    /\ pc' = [pc EXCEPT ![t] =
                 IF call[t].op \in CheckOps THEN "validate" ELSE "clone"]
    /\ UNCHANGED <<evars, log, scope, call, ret, seen, issued, logBy>>

\* The mutex is poisoned: lock() returns Err and unwrap() panics; the guard
\* inside the PoisonError is dropped by the unwinding.
AcquirePoisoned(t) ==
    /\ pc[t] = "lock"
    /\ lock.owner = None
    /\ lock.poisoned
    /\ pc' = [pc EXCEPT ![t] = "panicked"]
    /\ call' = [call EXCEPT ![t] = NoCall]
    /\ UNCHANGED <<evars, log, lock, scope, ret, seen, issued, logBy>>

----------------------------------------------------------------------------
(* StringScope::validate, under the guard.                                 *)

\* A comparison that forgets the expected condition.
MetIgnoringCondition(c, value, condition) == Validate(c, value)

\* `constraint.validate(&value) == condition`
Met(c, value, condition) == Validate(c, value) = condition

\* The `exception` closure: the scope's generator if there is one, else
\* the constraint's own generate_exception, both applied to the label.
Exception(sc, c) ==
    IF sc.has_generator
    THEN ApplyGenerator(sc.exception_generator, sc.message)
    ELSE GenerateException(c, sc.message)

EvalValidate(t) ==
    /\ pc[t] = "validate"
    /\ call[t].op \in {"must", "must_not"}
    /\ call[t].behaviour \in {"returns", "generator_panics"}
    /\ pc' = [pc EXCEPT ![t] =
                 IF Met(call[t].constraint, call[t].value,
                        call[t].op = "must")
                 THEN "push" ELSE "exception"]
    /\ call' = [call EXCEPT ![t].invoked = Append(@, "validate")]
    /\ UNCHANGED <<evars, log, lock, scope, ret, seen, issued, logBy>>

\* A failure that is raised to the caller instead of being recorded.
BuildExceptionRaises(t) ==
    /\ pc[t] = "exception"
    /\ lock' = [owner |-> None, poisoned |-> TRUE]
    /\ pc' = [pc EXCEPT ![t] = "panicked"]
    /\ call' = [call EXCEPT ![t] = NoCall]
    /\ UNCHANGED <<evars, log, scope, ret, seen, issued, logBy>>

\* A failure built by asking the constraint first and the scope's
\* generator, if there is one, after it.
BuildExceptionAsksBoth(t) ==
    /\ pc[t] = "exception"
    /\ call' = [call EXCEPT
                   ![t].entry =
                       ErrEntry(Exception(scope[t], call[t].constraint)),
                   ![t].invoked =
                       @ \o <<"generate_exception">>
                         \o (IF scope[t].has_generator
                             THEN <<"exception_generator">> ELSE <<>>)]
    /\ pc' = [pc EXCEPT ![t] = "push"]
    /\ UNCHANGED <<evars, log, lock, scope, ret, seen, issued, logBy>>

BuildException(t) ==
    /\ pc[t] = "exception"
    /\ call[t].behaviour = "returns"
    /\ call' = [call EXCEPT
                   ![t].entry =
                       ErrEntry(Exception(scope[t], call[t].constraint)),
                   ![t].invoked =
                       Append(@, IF scope[t].has_generator
                                 THEN "exception_generator"
                                 ELSE "generate_exception")]
    /\ pc' = [pc EXCEPT ![t] = "push"]
    /\ UNCHANGED <<evars, log, lock, scope, ret, seen, issued, logBy>>

\* A constraint() whose failure is built like a must's.
ConstraintEntryLikeMust(sc, pred) ==
    IF pred THEN OkEntry ELSE ErrEntry(Exception(sc, FnConstraint(<<>>)))

\* StringScope::constraint, under the guard: the predicate is evaluated and
\* a failure carries a clone of the scope's label.
ConstraintEntry(sc, pred) ==
    IF pred THEN OkEntry
    ELSE ErrEntry(ConstraintError_new(CloneClosure(sc.message)))

EvalPredicate(t) ==
    /\ pc[t] = "validate"
    /\ call[t].op = "constraint"
    /\ call[t].behaviour \in {"returns", "generator_panics"}
    /\ call' = [call EXCEPT
                   ![t].entry = ConstraintEntry(scope[t], call[t].pred),
                   ![t].invoked = Append(@, "predicate")]
    /\ pc' = [pc EXCEPT ![t] = "push"]
    /\ UNCHANGED <<evars, log, lock, scope, ret, seen, issued, logBy>>

\* `results.push(...)`
Push(t) ==
    /\ pc[t] = "push"
    /\ log' = VecPush(log, call[t].entry)
    /\ logBy' = Append(logBy, t)
    /\ pc' = [pc EXCEPT ![t] = "unlock"]
    /\ UNCHANGED <<evars, lock, scope, call, ret, seen, issued>>

\* The guard goes out of scope at the end of the function.
Unlock(t) ==
    /\ pc[t] = "unlock"
    /\ lock' = [lock EXCEPT !.owner = None]
    /\ pc' = [pc EXCEPT ![t] = "idle"]
    /\ call' = [call EXCEPT ![t] = NoCall]
    /\ UNCHANGED <<evars, log, scope, ret, seen, issued, logBy>>

----------------------------------------------------------------------------
(* RustrictScope::results / failures, under the guard: the contents are    *)
(* copied and the temporary guard is dropped as the call returns.          *)

\* An accessor that returns with the guard still alive.
CloneResultsKeepsGuard(t) ==
    /\ pc[t] = "clone"
    /\ call[t].op = "results"
    /\ ret' = [by |-> t, kind |-> "results", val |-> VecClone(log)]
    /\ seen' = Len(log)
    /\ pc' = [pc EXCEPT ![t] = "idle"]
    /\ call' = [call EXCEPT ![t] = NoCall]
    /\ UNCHANGED <<evars, log, lock, scope, issued, logBy>>

CloneResults(t) ==
    /\ pc[t] = "clone"
    /\ call[t].op = "results"
    /\ ret' = [by |-> t, kind |-> "results", val |-> VecClone(log)]
    /\ seen' = Len(log)
    /\ lock' = [lock EXCEPT !.owner = None]
    /\ pc' = [pc EXCEPT ![t] = "idle"]
    /\ call' = [call EXCEPT ![t] = NoCall]
    /\ UNCHANGED <<evars, log, scope, issued, logBy>>

CollectFailures(t) ==
    /\ pc[t] = "clone"
    /\ call[t].op = "failures"
    /\ ret' = [by |-> t, kind |-> "failures", val |-> FilterMapErr(log)]
    /\ seen' = Len(log)
    /\ lock' = [lock EXCEPT !.owner = None]
    /\ pc' = [pc EXCEPT ![t] = "idle"]
    /\ call' = [call EXCEPT ![t] = NoCall]
    /\ UNCHANGED <<evars, log, scope, issued, logBy>>

----------------------------------------------------------------------------
(* Caller-supplied code that does not simply return, run under the guard.  *)

\* The callback panics: the unwinding drops the guard, which poisons the
\* mutex; nothing is pushed.
CallbackPanics(t) ==
    /\ pc[t] = "validate"
    /\ call[t].behaviour = "panics"
    /\ lock' = [owner |-> None, poisoned |-> TRUE]
    /\ pc' = [pc EXCEPT ![t] = "panicked"]
    /\ call' = [call EXCEPT ![t] = NoCall]
    /\ UNCHANGED <<evars, log, scope, ret, seen, issued, logBy>>

\* The scope's generator or the constraint's generate_exception panics
\* while the failure is being built, inside `results.push(..)`: the guard
\* is dropped by the unwinding, nothing is pushed.
GeneratorPanics(t) ==
    /\ pc[t] = "exception"
    /\ call[t].behaviour = "generator_panics"
    /\ lock' = [owner |-> None, poisoned |-> TRUE]
    /\ pc' = [pc EXCEPT ![t] = "panicked"]
    /\ call' = [call EXCEPT ![t] = NoCall]
    /\ UNCHANGED <<evars, log, scope, ret, seen, issued, logBy>>

\* The callback calls results() on the session whose guard its caller
\* holds: the thread now requests the mutex it owns.
CallbackReenters(t) ==
    /\ pc[t] = "validate"
    /\ call[t].behaviour = "reenters"
    /\ pc' = [pc EXCEPT ![t] = "relock"]
    /\ UNCHANGED <<evars, log, lock, scope, call, ret, seen, issued, logBy>>

\* Locking a std Mutex the thread already holds never returns: it blocks
\* forever (no step) or panics (this step).
RelockPanics(t) ==
    /\ pc[t] = "relock"
    /\ lock' = [owner |-> None, poisoned |-> TRUE]
    /\ pc' = [pc EXCEPT ![t] = "panicked"]
    /\ call' = [call EXCEPT ![t] = NoCall]
    /\ UNCHANGED <<evars, log, scope, ret, seen, issued, logBy>>

----------------------------------------------------------------------------
(* CompositeError: a non-empty list of shared errors and its rendering.    *)

\* Longest list of errors handed to CompositeError::new, longest vector and
\* largest size handed to HaveSize.
MaxErrors == 3
MaxLen == 2

\* Texts of messages and descriptions.
ErrorTexts == {"E1", "E2"}

\* `Arc::new(std::io::Error::new(ErrorKind::Other, msg))`, the errors the
\* list is made of, and their to_string().
IoError(msg) == [kind |-> "io::Error", error |-> msg]
to_string(e) == e.error
IoErrors == {IoError(m) : m \in ErrorTexts}

SeqsUpTo(S, n) == UNION {[1..k -> S] : k \in 0..n}

\* A constructor without the assertion.
CompositeError_newUnchecked(errors) == [errors |-> errors]

\* A constructor that keeps one error per distinct message.
RECURSIVE CompositeError_newDistinct(_)
CompositeError_newDistinct(errors) ==
    IF Len(errors) = 0 THEN [panic |-> "The list of errors cannot be empty"]
    ELSE IF Len(errors) = 1 THEN [errors |-> errors]
    ELSE LET rest == CompositeError_newDistinct(Tail(errors)).errors
         IN  IF \E i \in 1..Len(rest) : rest[i] = Head(errors)
             THEN [errors |-> rest]
             ELSE [errors |-> <<Head(errors)>> \o rest]

\* CompositeError::new: `assert!(!errors.is_empty(), ...)`, then the list
\* is stored as given.
CompositeError_new(errors) ==
    IF Len(errors) = 0 THEN [panic |-> "The list of errors cannot be empty"]
    ELSE [errors |-> errors]

Panicked(result) == "panic" \in DOMAIN result

\* CompositeError::errors
CompositeError_errors(c) == c.errors

\* std::any::type_name::<dyn Error>()
TypeName == "dyn core::error::Error"

\* [String]::join
RECURSIVE Join(_, _)
Join(items, sep) ==
    IF Len(items) = 0 THEN ""
    ELSE IF Len(items) = 1 THEN items[1]
    ELSE items[1] \o sep \o Join(Tail(items), sep)

\* A rendering that braces the only error too.
CompositeError_fmtAlwaysBraced(c) ==
    "Multiple errors occurred -- "
        \o Join([i \in 1..Len(c.errors) |->
                    "{ [" \o TypeName \o "] " \o to_string(c.errors[i]) \o " }"],
                ",\n")

\* impl Display for CompositeError
CompositeError_fmt(c) ==
    IF Len(c.errors) = 1
    THEN "An error occurred -- [" \o TypeName \o "] " \o to_string(c.errors[1])
    ELSE "Multiple errors occurred -- "
            \o Join([i \in 1..Len(c.errors) |->
                        "{ [" \o TypeName \o "] " \o to_string(c.errors[i])
                            \o " }"],
                    ",\n")

\* A CompositeError has been built and is held by the caller.
HasComposite == composite.called /\ ~Panicked(composite.result)

NewComposite(errors) ==
    /\ composite' = [given |-> errors, called |-> TRUE,
                     result |-> CompositeError_new(errors)]
    /\ out' = [op |-> "CompositeError::new"]
    /\ UNCHANGED <<log, lock, pc, scope, call, ret, seen, issued, logBy,
                   cell, errs, cloneOf>>

CompositeErrors ==
    /\ HasComposite
    /\ out' = [op |-> "errors", val |-> CompositeError_errors(composite.result)]
    /\ UNCHANGED <<log, lock, pc, scope, call, ret, seen, issued, logBy,
                   cell, errs, composite, cloneOf>>

\* A rendering that sorts the stored errors by message before printing.
CompositeToStringSorting ==
    /\ HasComposite
    /\ LET sorted == [errors |->
                         SelectSeq(composite.result.errors,
                                   LAMBDA e : to_string(e) = "E1")
                         \o SelectSeq(composite.result.errors,
                                      LAMBDA e : to_string(e) # "E1")]
       IN  /\ composite' = [composite EXCEPT !.result = sorted]
           /\ out' = [op |-> "composite.to_string",
                      val |-> CompositeError_fmt(sorted)]
    /\ UNCHANGED <<log, lock, pc, scope, call, ret, seen, issued, logBy,
                   cell, errs, cloneOf>>

CompositeToString ==
    /\ HasComposite
    /\ out' = [op |-> "composite.to_string",
               val |-> CompositeError_fmt(composite.result)]
    /\ UNCHANGED <<log, lock, pc, scope, call, ret, seen, issued, logBy,
                   cell, errs, composite, cloneOf>>

----------------------------------------------------------------------------
(* Lazy errors and constraints used on their own.                          *)

\* The message functions a caller may hand to an error's constructor.
Closures ==
    {CloneClosure(m) : m \in ErrorTexts} \cup {ArcCellClosure, RcCellClosure}

IsCollectionError(e) == "collection" \in DOMAIN e

\* The history of clones once slot i is given another error.
Forget(i) ==
    [j \in Slots |-> IF j = i \/ cloneOf[j].of = i THEN NoClone
                     ELSE cloneOf[j]]

\* A constructor that computes the message at once and stores the text.
NewConstraintErrorEager(i, f) ==
    /\ errs' = [errs EXCEPT ![i] = ConstraintError_new(CloneClosure(Invoke(f)))]
    /\ out' = [op |-> "ConstraintError::new", invoked |-> <<f>>]
    /\ cloneOf' = Forget(i)
    /\ UNCHANGED <<log, lock, pc, scope, call, ret, seen, issued, logBy,
                   cell, composite>>

\* ConstraintError::new takes any `Fn() -> String + 'static`.
NewConstraintError(i, f) ==
    /\ errs' = [errs EXCEPT ![i] = ConstraintError_new(f)]
    /\ out' = [op |-> "ConstraintError::new", invoked |-> <<>>]
    /\ cloneOf' = Forget(i)
    /\ UNCHANGED <<log, lock, pc, scope, call, ret, seen, issued, logBy,
                   cell, composite>>

\* CollectionConstraintError::new takes a
\* `Fn() -> String + Send + Sync + 'static`.
NewCollectionConstraintError(i, f) ==
    /\ IsSendSync(f)
    /\ errs' = [errs EXCEPT ![i] = CollectionConstraintError_new(f)]
    /\ out' = [op |-> "CollectionConstraintError::new", invoked |-> <<>>]
    /\ cloneOf' = Forget(i)
    /\ UNCHANGED <<log, lock, pc, scope, call, ret, seen, issued, logBy,
                   cell, composite>>

\* error.message()
ErrorMessage(i) ==
    /\ errs[i] # NoError
    /\ out' = [op |-> "message", a |-> i,
               invoked |-> <<errs[i].lazy_message>>,
               val |-> IF IsCollectionError(errs[i])
                       THEN CollectionConstraintError_message(errs[i])
                       ELSE Message(errs[i])]
    /\ UNCHANGED <<log, lock, pc, scope, call, ret, seen, issued, logBy,
                   cell, errs, composite, cloneOf>>

\* error.to_string(), through the error's Display
ErrorToString(i) ==
    /\ errs[i] # NoError
    /\ out' = [op |-> "to_string", a |-> i,
               invoked |-> <<errs[i].lazy_message>>,
               val |-> IF IsCollectionError(errs[i])
                       THEN CollectionConstraintError_fmt(errs[i])
                       ELSE ConstraintError_fmt(errs[i])]
    /\ UNCHANGED <<log, lock, pc, scope, call, ret, seen, issued, logBy,
                   cell, errs, composite, cloneOf>>

\* `a == b` on two ConstraintErrors
ErrorEq(i, j) ==
    /\ errs[i] # NoError /\ ~IsCollectionError(errs[i])
    /\ errs[j] # NoError /\ ~IsCollectionError(errs[j])
    /\ out' = [op |-> "eq", a |-> i, b |-> j,
               invoked |-> <<errs[i].lazy_message, errs[j].lazy_message>>,
               val |-> ConstraintError_eq(errs[i], errs[j])]
    /\ UNCHANGED <<log, lock, pc, scope, call, ret, seen, issued, logBy,
                   cell, errs, composite, cloneOf>>

\* format!("{:?}", error): the Debug of both error types prints a
\* placeholder for the closure.
ConstraintError_debug(e) ==
    IF IsCollectionError(e)
    THEN "CollectionConstraintError { lazy_message: \"<closure>\" }"
    ELSE "ConstraintError { lazy_message: \"<closure>\" }"

ErrorDebug(i) ==
    /\ errs[i] # NoError
    /\ out' = [op |-> "debug", a |-> i, invoked |-> <<>>,
               val |-> ConstraintError_debug(errs[i])]
    /\ UNCHANGED <<log, lock, pc, scope, call, ret, seen, issued, logBy,
                   cell, errs, composite, cloneOf>>

\* `let copy = error.clone()`, kept in slot j
ErrorClone(i, j) ==
    /\ i # j
    /\ errs[i] # NoError /\ ~IsCollectionError(errs[i])
    /\ errs' = [errs EXCEPT ![j] = ConstraintError_clone(errs[i])]
    /\ cloneOf' = [Forget(j) EXCEPT
                      ![j] = [of |-> i, by |-> "clone", cellAt |-> cell]]
    /\ out' = [op |-> "clone", a |-> i, invoked |-> <<>>]
    /\ UNCHANGED <<log, lock, pc, scope, call, ret, seen, issued, logBy,
                   cell, composite>>

\* The error of slot i is recorded as the second entry of a log, as a
\* failed check records it, and read back through results() or failures();
\* the owned error that comes back is kept in slot j.
RecordAndRead(i, j, accessor) ==
    /\ i # j
    /\ errs[i] # NoError /\ ~IsCollectionError(errs[i])
    /\ LET recorded == VecPush(<<OkEntry>>, ErrEntry(errs[i]))
           owned == IF accessor = "results" THEN VecClone(recorded)[2].err
                    ELSE FilterMapErr(recorded)[1]
       IN  errs' = [errs EXCEPT ![j] = owned]
    /\ cloneOf' = [Forget(j) EXCEPT
                      ![j] = [of |-> i, by |-> accessor, cellAt |-> cell]]
    /\ out' = [op |-> accessor, a |-> i, invoked |-> <<>>]
    /\ UNCHANGED <<log, lock, pc, scope, call, ret, seen, issued, logBy,
                   cell, composite>>

\* The owner of the shared cell writes another text into it.
SetCell(m) ==
    /\ m # cell
    /\ cell' = m
    /\ out' = [op |-> "set"]
    /\ UNCHANGED <<log, lock, pc, scope, call, ret, seen, issued, logBy,
                   errs, composite, cloneOf>>

\* Vectors of up to MaxLen elements; their length is all HaveSize reads.
Vecs == SeqsUpTo({"x"}, MaxLen)

\* HaveSize::with_exact_size(size).validate(&value)
HaveSizeValidate(size, value) ==
    /\ out' = [op |-> "validate", size |-> size, value |-> value,
               val |-> Validate(HaveSize_with_exact_size(size), value)]
    /\ UNCHANGED <<log, lock, pc, scope, call, ret, seen, issued, logBy,
                   cell, errs, composite, cloneOf>>

\* constraint.generate_exception(description)
GenerateExceptionCall(c, description) ==
    /\ out' = [op |-> "generate_exception", constraint |-> c,
               description |-> description,
               val |-> GenerateException(c, description)]
    /\ UNCHANGED <<log, lock, pc, scope, call, ret, seen, issued, logBy,
                   cell, errs, composite, cloneOf>>

----------------------------------------------------------------------------
(* Specifications.                                                         *)

Returning == {"returns"}
AnyBehaviour == {"returns", "panics", "reenters", "generator_panics"}

\* Steps of the library itself. `in` names the inputs the callers draw
\* from: labels, generators, (value, constraint) pairs and what the
\* caller-supplied code does when it is run.
Step(t, in) ==
    \/ \E m \in in.labels : ValidateString(t, m)
    \/ \E m \in in.labels, g \in in.generators :
          ValidateStringWithCustomException(t, m, g)
    \/ ScopeEnd(t)
    \/ Must(t, in.max, in.inputs, in.behaviours)
    \/ MustNot(t, in.max, in.inputs, in.behaviours)
    \/ ConstraintCall(t, in.max, in.behaviours)
    \/ Results(t)
    \/ Failures(t)
    \/ Acquire(t)
    \/ EvalValidate(t)
    \/ BuildException(t)
    \/ EvalPredicate(t)
    \/ Push(t)
    \/ Unlock(t)
    \/ CloneResults(t)
    \/ CollectFailures(t)

\* One thread uses the session: scopes and checks follow one another.
SequentialInputs ==
    [max |-> MaxChecks, labels |-> Labels, generators |-> Generators,
     inputs |-> CheckInputs, behaviours |-> Returning]

Next == Step("t1", SequentialInputs)

Spec == Init /\ [][Next]_vars

\* Several threads share the session; every callback returns a value.
SharedInputs ==
    [max |-> MaxSharedChecks, labels |-> {"Test"}, generators |-> {"wrap"},
     inputs |-> {<<v, FnConstraint(NotTest)>> : v \in StrValues},
     behaviours |-> Returning]

NextThreads == \E t \in Threads : Step(t, SharedInputs)

SpecThreads == Init /\ [][NextThreads]_vars

\* Callbacks may also panic or call back into the session.
HostileInputs == [SharedInputs EXCEPT !.behaviours = AnyBehaviour]

NextCallbacks ==
    \E t \in Threads :
        \/ Step(t, HostileInputs)
        \/ AcquirePoisoned(t)
        \/ CallbackPanics(t)
        \/ GeneratorPanics(t)
        \/ CallbackReenters(t)
        \/ RelockPanics(t)

SpecCallbacks == Init /\ [][NextCallbacks]_vars

\* Errors and constraints used outside of any session, by one caller.
NextErrors ==
    \/ \E errors \in SeqsUpTo(IoErrors, MaxErrors) : NewComposite(errors)
    \/ CompositeErrors
    \/ CompositeToString
    \/ \E i \in Slots, f \in Closures : NewConstraintError(i, f)
    \/ \E i \in Slots, f \in Closures : NewCollectionConstraintError(i, f)
    \/ \E i \in Slots : ErrorMessage(i)
    \/ \E i \in Slots : ErrorToString(i)
    \/ \E i, j \in Slots : ErrorEq(i, j)
    \/ \E i \in Slots : ErrorDebug(i)
    \/ \E i, j \in Slots : ErrorClone(i, j)
    \/ \E i, j \in Slots, accessor \in ReadOps : RecordAndRead(i, j, accessor)
    \/ \E m \in ErrorTexts : SetCell(m)
    \/ \E size \in 0..MaxLen, value \in Vecs : HaveSizeValidate(size, value)
    \/ \E c \in {FnConstraint(NotTest)}
                   \cup {HaveSize_with_exact_size(n) : n \in 0..MaxLen},
          d \in Labels :
          GenerateExceptionCall(c, d)

SpecErrors == Init /\ [][NextErrors]_vars

----------------------------------------------------------------------------
(* Properties.                                                             *)

Last(s) == s[Len(s)]

\* What the i-th check entered was expected to record.
IssuedOutcome(i) == [ok |-> issued[i].ok, msg |-> issued[i].msg]

\* No check is in progress.
Quiescent == \A t \in Threads : ~InCheck(t)

\* C1: in a sequential session the log holds one entry per check issued,
\* the i-th entry being the outcome of the i-th check; once the calls have
\* returned the log has exactly as many entries as checks were issued, and
\* so has what results() returns: k entries after k checks, the i-th one
\* the outcome of the i-th check.
C1_LogMatchesIssuedChecks ==
    /\ Len(log) <= Len(issued)
    /\ \A i \in 1..Len(log) : EntryOutcome(log[i]) = IssuedOutcome(i)
    /\ Quiescent => Len(log) = Len(issued)
    /\ ret.kind = "results" =>
          /\ Len(ret.val) = seen
          /\ \A i \in 1..seen : EntryOutcome(ret.val[i]) = IssuedOutcome(i)
    /\ (ret.kind = "results" /\ log = ret.val /\ Quiescent) =>
          Len(ret.val) = Len(issued)

C1_Witness ==
    /\ Quiescent
    /\ Len(log) >= 3
    /\ log[1].ok /\ ~log[2].ok /\ ~log[3].ok
    /\ log[2] # log[3]
    /\ ret.kind = "results"
    /\ Len(ret.val) = 3

\* C2: the entry a must appends is Ok exactly when validate(value) is true,
\* the entry a must_not appends is Ok exactly when it is false, and an
\* entry that is not Ok is an Err holding an error.
C2_OkIffValidateEqualsCondition ==
    \A t \in Threads :
        (pc[t] = "unlock" /\ call[t].op \in {"must", "must_not"}) =>
            LET satisfied == Validate(call[t].constraint, call[t].value)
            IN  /\ call[t].op = "must" => (Last(log).ok <=> satisfied)
                /\ call[t].op = "must_not" => (Last(log).ok <=> ~satisfied)
                /\ ~Last(log).ok => DOMAIN Last(log) = {"ok", "err"}

C2_Witness ==
    \E t \in Threads :
        /\ pc[t] = "unlock"
        /\ call[t].op = "must_not"
        /\ call[t].constraint.kind = "have_size"
        /\ Validate(call[t].constraint, call[t].value)
        /\ ~Last(log).ok

\* C3: every failure recorded through a scope that has a custom exception
\* generator g and label L, whichever of must, must_not and constraint
\* recorded it, has the message of g(L).
C3_EveryFailureUsesTheGenerator ==
    \A t \in Threads :
        (pc[t] = "unlock" /\ scope[t].has_generator /\ ~Last(log).ok) =>
            Message(Last(log).err) =
                Message(ApplyGenerator(scope[t].exception_generator,
                                       scope[t].message))

\* C4: without a custom generator, a must or must_not with a plain
\* predicate that is not met records exactly one entry, an Err whose
\* message is the scope's label.
C4_PlainPredicateFailureCarriesLabel ==
    \A t \in Threads :
        (/\ pc[t] = "unlock"
         /\ call[t].op \in {"must", "must_not"}
         /\ call[t].constraint.kind = "fn"
         /\ ~scope[t].has_generator
         /\ (call[t].value = call[t].constraint.target)
                # (call[t].op = "must")) =>
            /\ Len(log) = Len(issued)
            /\ ~Last(log).ok
            /\ Message(Last(log).err) = scope[t].message

C4_Witness ==
    \E t \in Threads :
        /\ pc[t] = "unlock"
        /\ call[t].op = "must"
        /\ call[t].constraint = FnConstraint(NotTest)
        /\ call[t].value = Test
        /\ scope[t] = StringScope_new("Test")
        /\ Message(Last(log).err) = "Test"

\* The errors of the Err entries of a log, in log order.
ErrorsOf(v) ==
    LET failed == SelectSeq(v, LAMBDA entry : ~entry.ok)
    IN  [i \in 1..Len(failed) |-> failed[i].err]

ErrIndices(v) == {i \in 1..Len(v) : ~v[i].ok}

\* C5: what failures() returned is exactly the errors of the Err entries
\* the log held when it was called, in log order, and as many as there
\* were Err entries; Ok entries contribute nothing.
C5_FailuresAreTheErrEntriesInOrder ==
    ret.kind = "failures" =>
        LET snapshot == SubSeq(log, 1, seen)
        IN  /\ ret.val = ErrorsOf(snapshot)
            /\ Len(ret.val) = Cardinality(ErrIndices(snapshot))

C5_Witness ==
    /\ ret.kind = "failures"
    /\ seen = 3
    /\ ~log[1].ok /\ log[2].ok /\ ~log[3].ok
    /\ Len(ret.val) = 2
    /\ ret.val[1] # ret.val[2]

\* C6: the log is append-only: every step leaves the entries it held in
\* place, so an earlier state of the log is a prefix of every later one.
C6_LogIsAppendOnly ==
    [][Len(log') >= Len(log) /\ SubSeq(log', 1, Len(log)) = log]_vars

C6_Witness ==
    /\ Len(log) = 2
    /\ logBy[1] # logBy[2]
    /\ log[1] # log[2]
    /\ ret.kind = "results"

\* A check in progress whose thread holds the mutex, or can take it, has a
\* next step.
CheckCanProceed(t) ==
    ENABLED (\/ Acquire(t) \/ EvalValidate(t) \/ BuildException(t)
             \/ EvalPredicate(t) \/ Push(t) \/ Unlock(t))

\* C7: a check whose callbacks return never raises: no thread panics, a
\* check in progress can always go on to its return, and when it is about
\* to return its outcome, met or not, is the entry it has recorded.
C7_ChecksReturnAndRecord ==
    \A t \in Threads :
        /\ pc[t] # "panicked"
        /\ InCheck(t) => CheckCanProceed(t)
        /\ (pc[t] = "unlock" /\ InCheck(t)) =>
              EntryOutcome(Last(log)) = IssuedOutcome(Len(issued))

C7_Witness ==
    \E t \in Threads :
        /\ pc[t] = "unlock"
        /\ call[t].op = "constraint"
        /\ ~call[t].pred
        /\ ~Last(log).ok
        /\ Len(log) = 2

\* C8: the log lock is never re-entered: no thread requests the mutex
\* while it holds it.
C8_LockNeverReentered ==
    \A t \in Threads : lock.owner = t => pc[t] \notin {"lock", "relock"}

\* The outcomes of the entries thread t pushed, in log order.
EntriesBy(t) ==
    LET at == SelectSeq([i \in 1..Len(logBy) |-> i],
                        LAMBDA i : logBy[i] = t)
    IN  [k \in 1..Len(at) |-> EntryOutcome(log[at[k]])]

\* The expected outcomes of the checks thread t entered, in call order.
IssuedBy(t) ==
    LET mine == SelectSeq(issued, LAMBDA c : c.by = t)
    IN  [k \in 1..Len(mine) |-> [ok |-> mine[k].ok, msg |-> mine[k].msg]]

C10_AccessorsReturnCopies ==
    [][/\ Len(log') > Len(log) => ret' = ret
       /\ \A t \in Threads :
             (pc[t] = "clone" /\ pc'[t] = "idle") =>
                 /\ lock'.owner = None
                 /\ ret'.by = t
                 /\ ret'.kind = call[t].op]_vars

C10_Witness ==
    /\ ret.kind = "results"
    /\ Len(ret.val) = 1
    /\ Len(log) = 2
    /\ lock.owner = None

\* C11: CompositeError::new on an empty list panics and yields no value;
\* a CompositeError that has been built holds at least one error.
C11_EmptyCompositePanics ==
    composite.called =>
        /\ Len(composite.given) = 0 =>
              /\ Panicked(composite.result)
              /\ "errors" \notin DOMAIN composite.result
        /\ ~Panicked(composite.result) =>
              Len(CompositeError_errors(composite.result)) >= 1

C11_Witness ==
    /\ composite.called
    /\ composite.given = <<>>
    /\ Panicked(composite.result)

\* C12: errors() of a CompositeError built from a non-empty list E has the
\* length of E, and its i-th error has the text of the i-th error of E.
C12_ErrorsKeepsLengthAndOrder ==
    (out.op = "errors" /\ Len(composite.given) >= 1) =>
        /\ Len(out.val) = Len(composite.given)
        /\ \A i \in 1..Len(composite.given) :
              to_string(out.val[i]) = to_string(composite.given[i])

C12_Witness ==
    /\ out.op = "errors"
    /\ Len(composite.given) = 3
    /\ to_string(out.val[1]) = "E2"
    /\ to_string(out.val[2]) = "E1"
    /\ to_string(out.val[3]) = "E2"

\* The item of one error in the rendering of several.
Item(e) == "{ [" \o TypeName \o "] " \o to_string(e) \o " }"

\* The items of the first n errors of E, each after the first preceded by
\* a comma and a line feed.
RECURSIVE ItemsUpTo(_, _)
ItemsUpTo(E, n) ==
    IF n = 0 THEN ""
    ELSE IF n = 1 THEN Item(E[1])
    ELSE ItemsUpTo(E, n - 1) \o ",\n" \o Item(E[n])

\* C13: a CompositeError of one error renders as
\* "An error occurred -- [<type>] <message>"; one of two or more renders as
\* "Multiple errors occurred -- " followed by one "{ [<type>] <message> }"
\* per error, in the order given, joined by ",\n".
C13_CompositeRendering ==
    out.op = "composite.to_string" =>
        LET E == composite.given
        IN  /\ Len(E) = 1 =>
                  out.val = "An error occurred -- [" \o TypeName \o "] "
                                \o to_string(E[1])
            /\ Len(E) >= 2 =>
                  out.val = "Multiple errors occurred -- "
                                \o ItemsUpTo(E, Len(E))

C13_Witness ==
    /\ out.op = "composite.to_string"
    /\ composite.given = <<IoError("E2"), IoError("E1")>>
    /\ out.val = "Multiple errors occurred -- { [dyn core::error::Error] E2 },\n{ [dyn core::error::Error] E1 }"

\* C14: a lazy error of either type built from a function that always
\* returns m answers m to message() and renders as m, whenever it is asked.
C14_ConstantFunctionMessage ==
    out.op \in {"message", "to_string"} =>
        \A m \in ErrorTexts :
            errs[out.a].lazy_message = CloneClosure(m) => out.val = m

C14_Witness ==
    /\ out.op = "to_string"
    /\ IsCollectionError(errs[out.a])
    /\ errs[out.a].lazy_message = CloneClosure("E2")
    /\ out.val = "E2"
    /\ cell = "E1"

\* C15: two ConstraintErrors compare equal exactly when the texts their
\* message functions yield at the comparison are equal, whether or not
\* they hold the same closure.
C15_EqualIffMessagesEqual ==
    out.op = "eq" =>
        (out.val <=> Invoke(errs[out.a].lazy_message)
                        = Invoke(errs[out.b].lazy_message))

C15_Witness ==
    /\ out.op = "eq"
    /\ out.val
    /\ errs[out.a].lazy_message = CloneClosure("E2")
    /\ errs[out.b].lazy_message = RcCellClosure

\* C16: HaveSize::with_exact_size(n).validate(v) is true exactly when v has
\* n elements.
C16_ExactSizeValidate ==
    out.op = "validate" => (out.val <=> Len(out.value) = out.size)

C16_Witness ==
    /\ out.op = "validate"
    /\ out.size = 2
    /\ out.value = <<"x", "x">>
    /\ out.val

\* C17: generate_exception(d) of a plain predicate and of a HaveSize returns
\* an error whose message is d, whatever the constraint's parameters.
C17_GeneratedExceptionCarriesDescription ==
    out.op = "generate_exception" =>
        Invoke(out.val.lazy_message) = out.description

C17_Witness ==
    /\ out.op = "generate_exception"
    /\ out.constraint = HaveSize_with_exact_size(2)
    /\ out.description = "Size"
    /\ Invoke(out.val.lazy_message) = "Size"

\* C18: the message function stored in a lazy error is Send + Sync, so that
\* the error, and a log holding it, can be handed to other threads.
C18_MessageFunctionsAreSendSync ==
    \A i \in Slots : errs[i] # NoError => IsSendSync(errs[i].lazy_message)

\* C19: the caller-supplied code of a check (validate, the predicate, the
\* exception generator or generate_exception) is not run while the log
\* lock is held: the lock is held for the push only.
C19_CallbacksRunWithoutTheLock ==
    \A t \in Threads : pc[t] \in {"validate", "exception"} => lock.owner # t

\* C20: constraint(predicate) on a scope with label L evaluates the
\* predicate once and nothing else, and appends one entry: Ok when the
\* predicate is true, otherwise an Err whose message is L, also on a scope
\* that has a custom exception generator.
C20_ConstraintRecordsLabel ==
    \A t \in Threads :
        (pc[t] = "unlock" /\ call[t].op = "constraint") =>
            /\ call[t].invoked = <<"predicate">>
            /\ Len(log) = Len(issued)
            /\ call[t].pred => Last(log) = OkEntry
            /\ ~call[t].pred =>
                  /\ ~Last(log).ok
                  /\ Message(Last(log).err) = scope[t].message

C20_Witness ==
    \E t \in Threads :
        /\ pc[t] = "unlock"
        /\ call[t].op = "constraint"
        /\ ~call[t].pred
        /\ scope[t] = StringScope_new_with_exception_generator("Size", "wrap")
        /\ Len(log) = 2
        /\ Message(Last(log).err) = "Size"

\* C21: a lazy error's message function is called on demand only: building
\* the error, cloning it, printing it with Debug, recording it in a log and
\* reading the log with results() or failures() call it zero times; each
\* message() and each Display rendering calls it once; an equality
\* comparison calls the function of each operand once.
C21_MessageFunctionCalledOnDemand ==
    /\ out.op \in {"ConstraintError::new", "CollectionConstraintError::new",
                   "clone", "debug", "results", "failures"} =>
          out.invoked = <<>>
    /\ out.op \in {"message", "to_string"} =>
          out.invoked = <<errs[out.a].lazy_message>>
    /\ out.op = "eq" =>
          out.invoked = <<errs[out.a].lazy_message, errs[out.b].lazy_message>>

C21_Witness ==
    /\ out.op = "eq"
    /\ out.a # out.b
    /\ errs[out.a].lazy_message = ArcCellClosure
    /\ errs[out.b].lazy_message = CloneClosure("E1")
    /\ Len(out.invoked) = 2

C23_CompositeIsImmutable ==
    [][out'.op \in {"errors", "composite.to_string"} =>
          /\ composite' = composite
          /\ out'.op = "errors" => out'.val = composite.result.errors
          /\ (out.op = "composite.to_string"
              /\ out'.op = "composite.to_string") => out'.val = out.val]_vars

C23_Witness ==
    /\ out.op = "composite.to_string"
    /\ Len(composite.given) = 3
    /\ composite.result.errors = <<IoError("E2"), IoError("E2"), IoError("E1")>>

\* C24: a must or must_not that is met calls neither the scope's custom
\* generator nor the constraint's generate_exception; one that is not met
\* calls exactly one of them, once, with the scope's label: the custom
\* generator if the scope has one, otherwise generate_exception.
C24_FailureBuiltByOneSource ==
    \A t \in Threads :
        (pc[t] = "unlock" /\ call[t].op \in {"must", "must_not"}) =>
            LET met == Validate(call[t].constraint, call[t].value)
                           = (call[t].op = "must")
                sc == scope[t]
            IN  /\ met =>
                      /\ call[t].invoked = <<"validate">>
                      /\ Last(log) = OkEntry
                /\ (~met /\ sc.has_generator) =>
                      /\ call[t].invoked = <<"validate", "exception_generator">>
                      /\ Last(log) = ErrEntry(ApplyGenerator(
                                         sc.exception_generator, sc.message))
                /\ (~met /\ ~sc.has_generator) =>
                      /\ call[t].invoked = <<"validate", "generate_exception">>
                      /\ Last(log) = ErrEntry(GenerateException(
                                         call[t].constraint, sc.message))

C24_Witness ==
    \E t \in Threads :
        /\ pc[t] = "unlock"
        /\ call[t].op = "must_not"
        /\ call[t].constraint.kind = "have_size"
        /\ scope[t] = StringScope_new_with_exception_generator("Size", "wrap")
        /\ call[t].invoked = <<"validate", "exception_generator">>
        /\ Message(Last(log).err) = "custom: Size"

\* C25: when caller-supplied code panics during a check, the check
\* appends nothing and the log stays as it was, and the log lock is left
\* poisoned; from then on the lock stays poisoned, the log and what the
\* accessors returned no longer change, and every call that reaches the
\* lock panics.
C25_PanicPoisonsTheLog ==
    [][\A t \in Threads :
          /\ (pc[t] \in {"validate", "exception"} /\ pc'[t] = "panicked") =>
                /\ log' = log
                /\ lock'.poisoned
                /\ lock'.owner = None
          /\ lock.poisoned =>
                /\ lock'.poisoned
                /\ lock'.owner = None
                /\ log' = log
                /\ ret' = ret
          /\ (lock.poisoned /\ pc[t] = "lock" /\ pc'[t] # "lock") =>
                pc'[t] = "panicked"]_vars

\* The second check panicked after the first was recorded, and the other
\* thread's later call panicked at the lock.
C25_Witness ==
    /\ lock.poisoned
    /\ \A t \in Threads : pc[t] = "panicked"
    /\ Len(issued) = 2
    /\ Len(log) = 1
    /\ issued[1].by = issued[2].by

\* A thread is between taking the guard for a check and dropping it.
Appending(t) == pc[t] \in {"validate", "exception", "push", "unlock"}

\* C26: results() and failures() are atomic with respect to the appends of
\* other threads: while an accessor copies the log no append is in
\* progress, what results() returned is the whole log as it was at the
\* instant of the copy (a prefix of the log ever after), and what
\* failures() returned is the errors of the Err entries of that log.
C26_AccessorsAreAtomic ==
    /\ \A t \in Threads :
          pc[t] = "clone" =>
              \A u \in Threads \ {t} : ~Appending(u) /\ pc[u] # "clone"
    /\ seen <= Len(log)
    /\ ret.kind = "results" => ret.val = SubSeq(log, 1, seen)
    /\ ret.kind = "failures" => ret.val = ErrorsOf(SubSeq(log, 1, seen))

\* failures() ran between the appends of two threads: it returned what the
\* log held then, and the log has grown since.
C26_Witness ==
    /\ ret.kind = "failures"
    /\ seen = 1
    /\ Len(ret.val) = 1
    /\ Len(log) = 2
    /\ ~log[2].ok
    /\ logBy[1] # logBy[2]
    /\ \E t \in Threads : pc[t] = "unlock"

====
